---- MODULE Spec2Model ----
(***************************************************************************)
(* A state-machine model of react-exo-hooks: the useFetch promise state    *)
(* machine, the recursive observable object proxy (proxyObject/useObject), *)
(* the stateful collections (StatefulMap, StatefulSet, StatefulArray),     *)
(* useDebouncedState and useUnsaved.  Each subsystem has its own           *)
(* specification (SpecFetch, SpecObject, SpecColl, SpecArray, SpecSignal,  *)
(* SpecDebounce, SpecUnsaved); the variables of the other subsystems stay  *)
(* at their initial values.                                                *)
(***************************************************************************)
EXTENDS Integers, Sequences, FiniteSets, TLC

VARIABLES
  \* ---- useFetch (src/hooks/use-promise.ts)
  value,          \* value.current: [state, result, error]
  persist,        \* the persist argument
  callback,       \* the memoized result of fn() (a function identity, or Falsy)
  effectDeps,     \* the [callback] the effect last ran with (NotRun before the first run)
  ops,            \* the operations started so far, each with its AbortController
  aborter,        \* index in ops of the operation whose cleanup the effect holds, 0 if none
  cycle,          \* the number of dependency-list identities seen (the first render counts)
  effectPending,  \* a render was committed and its passive effects are not yet flushed
  mounted,        \* the component is mounted
  commitBy,       \* history: the operation whose handler last wrote value.current, 0 if none
  uncaught,       \* history: a rejection left the hook's promise chain unhandled
  \* ---- proxyObject / useObject (src/unnamed/part_002)
  heap,           \* the JavaScript objects: plain objects, class instances and Proxies
  signal,         \* the number of setSignal((prior) => prior + 1) invocations
  proxy,          \* the Proxy useObject memoizes (the object state is address 1)
  revokedRef,     \* useObject's revoked.current
  objMounted,     \* the component that called useObject is mounted
  held,           \* the references the caller can hold (all it was ever able to read)
  shadow,         \* history: the same writes and deletes applied to a plain copy
  last,           \* history: the last operation and what it did
  steps,          \* the number of operations performed
  \* ---- StatefulMap / StatefulSet / StatefulArray (src/src/index.ts, src/unnamed/part_003)
  ckind,          \* which hook is in use: "map", "set" or "array" ("none" when idle)
  insts,          \* the instances created so far: [items, sig, redefine]
  hostInst,       \* the instance the hook's useState holds and returns, 0 if none
  hostSignal,     \* the hook's signal state: the value last given to setSignal
  attachPending,  \* the effect that registers the redefinition callback has not run yet
  lastc,          \* history: the last operation and what it dispatched
  csteps,         \* the number of operations performed
  seen,           \* history: what a dependent read last, [items, sig, host] (<<>> if none)
  \* ---- useDebouncedState (src/src/hooks/use-debounced-state.ts)
  debounced,      \* the debounced state
  real,           \* the real state
  timeoutMs,      \* the timeoutMs argument of the last render
  timers,         \* the host's outstanding timers: [id, due, val]
  timeout,        \* the timer id the effect's cleanup holds, 0 if none
  timerSeq,       \* the number of timers armed so far
  now,            \* the host's clock
  debouncePending,\* a render was committed and its passive effects are not yet flushed
  debounceMounted,\* the component that called useDebouncedState is mounted
  updates,        \* history: the renders with a new argument or state, [op, at, val]
  settles,        \* history: the timer callbacks that changed debounced, [at, val]
  lastd,          \* history: the last step and what it did
  \* ---- useUnsaved (src/src/hooks/use-unsaved.ts)
  unsaved,        \* the unsaved argument of the last render
  router,         \* the router object is defined
  pathname,       \* router.pathname
  routerListeners,\* the routeChangeStart handlers registered on router.events
  windowListeners,\* the beforeunload handlers registered on window
  registered,     \* the handlers the effect's cleanup holds, 0 if none
  effectRuns,     \* the number of effect bodies run so far
  unsavedPending, \* a render was committed and its passive effects are not yet flushed
  unsavedMounted, \* the component that called useUnsaved is mounted
  lastn,          \* history: the last step and what it did
  nsteps          \* the number of steps performed

fetchVars == <<value, persist, callback, effectDeps, ops, aborter, cycle,
               effectPending, mounted, commitBy, uncaught>>

objectVars == <<heap, signal, proxy, revokedRef, objMounted, held, shadow, last, steps>>

collVars == <<ckind, insts, hostInst, hostSignal, attachPending, lastc, csteps, seen>>

debounceVars == <<debounced, real, timeoutMs, timers, timeout, timerSeq, now,
                  debouncePending, debounceMounted, updates, settles, lastd>>

unsavedVars == <<unsaved, router, pathname, routerListeners, windowListeners,
                 registered, effectRuns, unsavedPending, unsavedMounted, lastn, nsteps>>

vars == <<fetchVars, objectVars, collVars, debounceVars, unsavedVars>>

(***************************************************************************)
(* useFetch                                                                *)
(***************************************************************************)

\* Bounds of the model.
MaxCycles == 3

\* JavaScript's undefined in a result or error slot; a result or an error is
\* the (positive) index of the operation that produced it.
Undefined == 0
\* The factory returned false | undefined | null | ''.
Falsy == "falsy"
\* The effect has not run yet.
NotRun == "notrun"
\* The function objects the factory can return.
Callbacks == {"f1", "f2"}

\* useRef initial value.
InitialValue == [state |-> "waiting", result |-> Undefined, error |-> Undefined]

\* The waiting state with empty slots whatever persist is.
WaitingCleared(v, p) ==
  [state |-> "waiting", result |-> Undefined, error |-> Undefined]

\* The value written by the useMemo callback on a dependency-list change.
Waiting(v, p) ==
  [state  |-> "waiting",
   result |-> IF p THEN v.result ELSE Undefined,
   error  |-> IF p THEN v.error ELSE Undefined]

\* The .then handler: the operation op (index i) resolved with result i.
ThenHandler(v, p, op, i) ==
  IF op.aborted THEN v
  ELSE [state  |-> "resolved",
        result |-> i,
        error  |-> IF p THEN v.error ELSE Undefined]

\* CatchHandler with the abort test inverted (a dropped "!").
CatchHandlerInverted(v, p, op, i) ==
  IF op.aborted
  THEN [state  |-> "rejected",
        result |-> IF p THEN v.result ELSE Undefined,
        error  |-> i]
  ELSE v

\* The .catch handler: the operation op (index i) rejected with error i.
CatchHandler(v, p, op, i) ==
  IF ~op.aborted
  THEN [state  |-> "rejected",
        result |-> IF p THEN v.result ELSE Undefined,
        error  |-> i]
  ELSE v

\* The promise returned by .then(onFulfilled): a rejection passes through,
\* a fulfilment runs the handler, which returns normally.
AfterThen(outcome) == IF outcome = "rejected" THEN "rejected" ELSE "fulfilled"

\* The promise returned by .catch(onRejected): the handler returns normally.
AfterCatch(outcome) == "fulfilled"

\* aborter.abort() of the effect's cleanup.
Abort(os, i) == IF i = 0 THEN os ELSE [os EXCEPT ![i].aborted = TRUE]

\* The useFetch state after the first render.
FetchStart ==
  /\ value = InitialValue
  /\ persist \in BOOLEAN
  /\ callback \in Callbacks \cup {Falsy}
  /\ effectDeps = NotRun
  /\ ops = <<>>
  /\ aborter = 0
  /\ cycle = 1
  /\ effectPending = TRUE
  /\ mounted = TRUE
  /\ commitBy = 0
  /\ uncaught = FALSE

\* useObject is not in use.
ObjectIdle ==
  /\ heap = <<>>
  /\ signal = 0
  /\ proxy = 0
  /\ revokedRef = FALSE
  /\ objMounted = FALSE
  /\ held = {}
  /\ shadow = <<>>
  /\ last = <<>>
  /\ steps = 0

\* No stateful collection is in use.
CollIdle ==
  /\ ckind = "none"
  /\ insts = <<>>
  /\ hostInst = 0
  /\ hostSignal = 0
  /\ attachPending = FALSE
  /\ lastc = <<>>
  /\ csteps = 0
  /\ seen = <<>>

\* useDebouncedState is not in use.
DebounceIdle ==
  /\ debounced = 0
  /\ real = 0
  /\ timeoutMs = 0
  /\ timers = {}
  /\ timeout = 0
  /\ timerSeq = 0
  /\ now = 0
  /\ debouncePending = FALSE
  /\ debounceMounted = FALSE
  /\ updates = <<>>
  /\ settles = <<>>
  /\ lastd = <<>>

\* useUnsaved is not in use.
UnsavedIdle ==
  /\ unsaved = FALSE
  /\ router = FALSE
  /\ pathname = <<>>
  /\ routerListeners = {}
  /\ windowListeners = {}
  /\ registered = 0
  /\ effectRuns = 0
  /\ unsavedPending = FALSE
  /\ unsavedMounted = FALSE
  /\ lastn = <<>>
  /\ nsteps = 0

\* useFetch is not in use.
FetchIdle ==
  /\ value = InitialValue
  /\ persist = FALSE
  /\ callback = Falsy
  /\ effectDeps = NotRun
  /\ ops = <<>>
  /\ aborter = 0
  /\ cycle = 1
  /\ effectPending = FALSE
  /\ mounted = FALSE
  /\ commitBy = 0
  /\ uncaught = FALSE

FetchInit == FetchStart /\ ObjectIdle /\ CollIdle /\ DebounceIdle /\ UnsavedIdle

\* A render with a changed dependency list: the useMemo callback runs.
\* React flushes the passive effects of the previous render first.
DepsChange(cb) ==
  /\ mounted
  /\ ~effectPending
  /\ cycle < MaxCycles
  /\ callback' = cb
  /\ value' = Waiting(value, persist)
  /\ cycle' = cycle + 1
  /\ effectPending' = TRUE
  /\ UNCHANGED <<persist, effectDeps, ops, aborter, mounted, commitBy, uncaught>>
  /\ UNCHANGED <<objectVars, collVars, debounceVars, unsavedVars>>

\* The passive effects of the committed render are flushed: when callback
\* changed, the previous cleanup runs and the effect body runs.
RunEffect ==
  /\ mounted
  /\ effectPending
  /\ effectPending' = FALSE
  /\ effectDeps' = callback
  /\ IF callback = effectDeps
     THEN UNCHANGED <<ops, aborter>>
     ELSE IF callback = Falsy
          THEN /\ ops' = Abort(ops, aborter)
               /\ aborter' = 0
          ELSE /\ ops' = Append(Abort(ops, aborter),
                                [cb |-> callback, aborted |-> FALSE,
                                 status |-> "pending", cycle |-> cycle])
               /\ aborter' = Len(ops) + 1
  /\ UNCHANGED <<value, persist, callback, cycle, mounted, commitBy, uncaught>>
  /\ UNCHANGED <<objectVars, collVars, debounceVars, unsavedVars>>

\* The promise of operation i settles and the handlers of its chain run.
Settle(i, outcome) ==
  /\ i \in DOMAIN ops
  /\ ops[i].status = "pending"
  /\ ops' = [ops EXCEPT ![i].status = outcome]
  /\ value' = IF outcome = "resolved"
              THEN ThenHandler(value, persist, ops[i], i)
              ELSE CatchHandler(value, persist, ops[i], i)
  /\ commitBy' = IF value' # value THEN i ELSE commitBy
  /\ uncaught' = (uncaught \/ AfterCatch(AfterThen(outcome)) = "rejected")
  /\ UNCHANGED <<persist, callback, effectDeps, aborter, cycle, effectPending, mounted>>
  /\ UNCHANGED <<objectVars, collVars, debounceVars, unsavedVars>>

\* The component unmounts: the effect's cleanup runs.
Unmount ==
  /\ mounted
  /\ ~effectPending
  /\ mounted' = FALSE
  /\ ops' = Abort(ops, aborter)
  /\ aborter' = 0
  /\ UNCHANGED <<value, persist, callback, effectDeps, cycle, effectPending,
                 commitBy, uncaught>>
  /\ UNCHANGED <<objectVars, collVars, debounceVars, unsavedVars>>

FetchNext ==
  \/ \E cb \in Callbacks \cup {Falsy} : DepsChange(cb)
  \/ RunEffect
  \/ \E i \in 1..MaxCycles, outcome \in {"resolved", "rejected"} : Settle(i, outcome)
  \/ Unmount

SpecFetch == FetchInit /\ [][FetchNext]_vars

\* ---- Claims about useFetch

\* C1: only the operation started for the most recent dependency change can
\* set the state to resolved or rejected: whenever the state is resolved or
\* rejected, the operation that wrote it was started in the current cycle.
C1_OnlyLatestOperationCommits ==
  value.state \in {"resolved", "rejected"} =>
    (commitBy \in DOMAIN ops /\ ops[commitBy].cycle = cycle)

\* C2: without persist, the waiting state has both slots undefined, and no
\* result or error of an operation of an earlier cycle is visible after a
\* dependency change (a slot holds the index of the operation that set it).
C2_NoEarlierCycleVisible ==
  ~persist =>
    /\ (value.state = "waiting" =>
          value.result = Undefined /\ value.error = Undefined)
    /\ (value.result # Undefined => ops[value.result].cycle = cycle)
    /\ (value.error # Undefined => ops[value.error].cycle = cycle)

\* The part of C2 that the useMemo callback alone decides: every dependency
\* change writes the waiting state, with empty slots when persist is unset.
C2_ChangeForcesWaiting ==
  [][cycle' # cycle =>
       /\ value'.state = "waiting"
       /\ (~persist => value'.result = Undefined /\ value'.error = Undefined)]_vars

\* C3: when an operation whose AbortController is not aborted rejects, the
\* state becomes rejected with that failure in the error slot and no
\* rejection is left unhandled; an operation of the current cycle of a
\* mounted component is never aborted.
C3_FailureIsCaptured ==
  [][\A i \in DOMAIN ops :
       /\ (ops[i].status = "pending" /\ ops'[i].status = "rejected" /\ ~ops[i].aborted)
            => (value'.state = "rejected" /\ value'.error = i /\ ~uncaught')
       /\ (ops[i].cycle = cycle /\ mounted) => ~ops[i].aborted]_vars

\* C3 witness: the current operation has rejected and the state shows it.
C3_Witness ==
  \E i \in DOMAIN ops :
    /\ ops[i].status = "rejected" /\ ~ops[i].aborted /\ ops[i].cycle = cycle
    /\ value.state = "rejected" /\ value.error = i /\ ~uncaught

\* Operation i settles with the given outcome in this step and its handler
\* commits (its AbortController is not aborted).
Commits(i, outcome) ==
  /\ i \in DOMAIN ops
  /\ ops[i].status = "pending" /\ ops'[i].status = outcome
  /\ ~ops[i].aborted

\* C23: without persist, waiting has both slots undefined, resolved has the
\* error slot undefined and rejected has the result slot undefined.  With
\* persist, a committed resolution puts its result in the result slot, a
\* committed rejection puts its error in the error slot, and nothing else
\* changes a slot: the slots hold the result of the most recently committed
\* resolution and the error of the most recently committed rejection
\* through the waiting, resolved and rejected states of later cycles.
C23_SlotsFollowCommits ==
  /\ [](~persist =>
          /\ value.state = "waiting" =>
               value.result = Undefined /\ value.error = Undefined
          /\ value.state = "resolved" => value.error = Undefined
          /\ value.state = "rejected" => value.result = Undefined)
  /\ [][persist =>
          /\ \A i \in DOMAIN ops :
               /\ Commits(i, "resolved") =>
                    value' = [state |-> "resolved", result |-> i, error |-> value.error]
               /\ Commits(i, "rejected") =>
                    value' = [state |-> "rejected", result |-> value.result, error |-> i]
          /\ value'.result # value.result =>
               \E i \in DOMAIN ops : Commits(i, "resolved")
          /\ value'.error # value.error =>
               \E i \in DOMAIN ops : Commits(i, "rejected")]_vars

\* C23 witness: with persist, the state of a later cycle is rejected and
\* still shows the result an operation of an earlier cycle resolved with.
C23_Witness ==
  /\ persist
  /\ value.state = "rejected"
  /\ value.result # Undefined /\ value.error # Undefined
  /\ ops[value.result].cycle < ops[value.error].cycle
  /\ ops[value.error].cycle = cycle

\* The operations started for the current dependency list.
StartedForCycle == {i \in DOMAIN ops : ops[i].cycle = cycle}

\* C22: once the effects of a render are flushed, a dependency change whose
\* factory returned an operation has exactly one operation started for it,
\* with a signal that is not aborted, and the state is not waiting any more
\* when that operation has settled; when the factory returned a falsy value
\* no operation is started for the change, no operation that is still
\* pending is left unaborted, and the state is waiting.
C22_OperationPerChange ==
  (mounted /\ ~effectPending) =>
    IF callback # Falsy
    THEN /\ Cardinality(StartedForCycle) = 1
         /\ \A i \in StartedForCycle :
              /\ aborter = i
              /\ ~ops[i].aborted
              /\ ops[i].status # "pending" => value.state # "waiting"
    ELSE /\ StartedForCycle = {}
         /\ \A i \in DOMAIN ops : ops[i].status = "pending" => ops[i].aborted
         /\ value.state = "waiting"


(***************************************************************************)
(* proxyObject / useObject                                                 *)
(*                                                                         *)
(* The heap is a sequence of objects addressed by their index.  A value is *)
(* a pair: a primitive, undefined, a function or a reference to an object. *)
(* An object is a plain object, a class instance (any object whose         *)
(* prototype is not Object.prototype) or a Proxy made by Proxy.revocable.  *)
(***************************************************************************)

\* Bounds of the model.
MaxObjs == 8
MaxSteps == 3

\* The property names the caller writes and deletes.
Props == {"a", "b"}
\* The reserved signal accessor.
ValueOfKey == "valueOf"
AllKeys == Props \cup {ValueOfKey}

Undef == <<"undefined", 0>>
Prim(n) == <<"prim", n>>
Ref(a) == <<"ref", a>>
\* () => signal, as created by the render that saw the signal value n.
Fn(n) == <<"fn", n>>
\* The result of a read that threw.
Thrown == <<"throw", 0>>
IsRef(v) == v[1] = "ref"

NoFields == [k \in AllKeys |-> Undef]

\* A plain object ("plain") or class instance ("inst") with own properties
\* keys (in insertion order) holding values f.
Obj(kind, keys, f) ==
  [kind |-> kind, keys |-> keys, f |-> f,
   target |-> 0, revoked |-> FALSE, revocables |-> <<>>]

\* The Proxy of Proxy.revocable(object, handler), with the revocables array
\* of the proxyObject call that made it.
ProxyRec(object, revocables) ==
  [kind |-> "proxy", keys |-> <<>>, f |-> NoFields,
   target |-> object, revoked |-> FALSE, revocables |-> revocables]

SeqRange(q) == {q[i] : i \in DOMAIN q}

\* The object an operation on address a ends at: a Proxy without a trap for
\* the operation forwards it to its target; 0 when a revoked Proxy is met,
\* where the operation throws a TypeError.
RECURSIVE Resolve(_, _)
Resolve(h, a) ==
  IF h[a].kind # "proxy" THEN a
  ELSE IF h[a].revoked THEN 0
  ELSE Resolve(h, h[a].target)

\* The object a Proxy chain wraps, whether revoked or not.
RECURSIVE RawOf(_, _)
RawOf(h, a) == IF h[a].kind # "proxy" THEN a ELSE RawOf(h, h[a].target)

\* object[key]: the handler has no get trap.
Get(h, a, k) ==
  LET r == Resolve(h, a) IN IF r = 0 THEN Thrown ELSE h[r].f[k]

\* key in object: the handler has no has trap.
Has(h, a, k) ==
  LET r == Resolve(h, a) IN IF r = 0 THEN "throw"
                            ELSE IF k \in SeqRange(h[r].keys) THEN "true" ELSE "false"

\* isPlainObject without the prototype test: every object counts as plain.
isPlainObjectAnyObject(h, v) ==
  IF ~IsRef(v) THEN "false"
  ELSE IF Resolve(h, v[2]) = 0 THEN "throw" ELSE "true"

\* isPlainObject(value); Object.getPrototypeOf throws on a revoked Proxy.
isPlainObject(h, v) ==
  IF ~IsRef(v) THEN "false"
  ELSE LET r == Resolve(h, v[2]) IN
       IF r = 0 THEN "throw"
       ELSE IF h[r].kind = "plain" THEN "true" ELSE "false"

\* The ordinary [[Set]] of a plain object or class instance.
SetOwn(h, r, k, v) ==
  [h EXCEPT ![r].f[k] = v,
            ![r].keys = IF k \in SeqRange(@) THEN @ ELSE Append(@, k)]

\* A delete that is not forwarded to the target.
DeleteOwnSkipped(h, r, k) == h

\* The ordinary [[Delete]] of a plain object or class instance.
DeleteOwn(h, r, k) ==
  [h EXCEPT ![r].f[k] = Undef,
            ![r].keys = SelectSeq(@, LAMBDA x : x # k)]

\* The state threaded through one call from the caller: the heap, the
\* setSignal invocations made, whether an exception is propagating, the
\* value returned by the last proxyObject call, the number of proxyObject
\* calls, and whether the recursion ran away (a cyclic structure).
Begin(h) ==
  [h |-> h, sig |-> 0, err |-> FALSE, ret |-> 0, calls |-> 0, overflow |-> FALSE]

Throw(st) == [st EXCEPT !.err = TRUE]

RECURSIVE SetP(_, _, _, _)
RECURSIVE SetTrap(_, _, _, _)
RECURSIVE proxyObject(_, _)
RECURSIVE ProxyLoop(_, _, _, _)
RECURSIVE DeleteP(_, _, _)
RECURSIVE revoke(_, _)
RECURSIVE RevokeLoop(_, _, _)

\* object[k] = v for any object: the ordinary [[Set]], or the set trap of a
\* live Proxy, or a TypeError on a revoked Proxy.
SetP(st, a, k, v) ==
  IF st.err THEN st
  ELSE IF st.h[a].kind # "proxy" THEN [st EXCEPT !.h = SetOwn(st.h, a, k, v)]
  ELSE IF st.h[a].revoked THEN Throw(st)
  ELSE SetTrap(st, a, k, v)

\* The set trap of Proxy a.
SetTrap(st, a, k, v) ==
  LET target == st.h[a].target
      cur == IF k = ValueOfKey THEN Undef ELSE Get(st.h, target, k)
  IN
  IF cur = Thrown THEN Throw(st)
  ELSE
    LET s1 == IF k # ValueOfKey /\ cur # v THEN [st EXCEPT !.sig = @ + 1] ELSE st
        isPlain == isPlainObject(s1.h, v)
    IN
    IF isPlain = "throw" THEN Throw(s1)
    ELSE IF isPlain = "true"
    THEN LET s2 == proxyObject(s1, v[2])
             s3 == [s2 EXCEPT !.h[a].revocables =
                                 Append(@, [sub |-> s2.ret, key |-> k, raw |-> v])]
         IN IF s2.err THEN s2 ELSE SetP(s3, target, k, Ref(s2.ret))
    ELSE SetP(s1, target, k, v)

\* proxyObject(object, setSignal): returns the state with ret the new Proxy.
proxyObject(st, object) ==
  IF st.err THEN st
  ELSE IF st.calls >= MaxObjs THEN [st EXCEPT !.err = TRUE, !.overflow = TRUE]
  ELSE
    LET r == Resolve(st.h, object) IN
    IF r = 0 THEN Throw(st)
    ELSE
      LET s1 == ProxyLoop([st EXCEPT !.calls = @ + 1], object, st.h[r].keys, <<>>)
      IN IF s1.err THEN s1
         ELSE [s1 EXCEPT !.h = Append(s1.h, ProxyRec(object, s1.ret)),
                         !.ret = Len(s1.h) + 1]

\* The for (const key in object) loop of proxyObject over the remaining
\* keys; returns the state with ret the revocables array.
ProxyLoop(st, object, keys, revocables) ==
  IF st.err THEN st
  ELSE IF keys = <<>> THEN [st EXCEPT !.ret = revocables]
  ELSE
    LET key == Head(keys)
        original == Get(st.h, object, key)
        isPlain == IF original = Thrown THEN "throw" ELSE isPlainObject(st.h, original)
    IN
    IF isPlain = "throw" THEN Throw(st)
    ELSE IF isPlain = "true"
    THEN LET s1 == proxyObject(st, original[2])
             s2 == SetP(s1, object, key, Ref(s1.ret))
         IN IF s1.err THEN s1
            ELSE ProxyLoop(s2, object, Tail(keys),
                           Append(revocables,
                                  [sub |-> s1.ret, key |-> key, raw |-> original]))
    ELSE ProxyLoop(st, object, Tail(keys), revocables)

\* delete object[k] for any object: the ordinary [[Delete]], or the
\* deleteProperty trap of a live Proxy, or a TypeError on a revoked Proxy.
DeleteP(st, a, k) ==
  IF st.err THEN st
  ELSE IF st.h[a].kind # "proxy" THEN [st EXCEPT !.h = DeleteOwn(st.h, a, k)]
  ELSE IF st.h[a].revoked THEN Throw(st)
  ELSE
    LET target == st.h[a].target
        has == Has(st.h, target, k)
    IN IF has = "throw" THEN Throw(st)
       ELSE DeleteP(IF has = "true" THEN [st EXCEPT !.sig = @ + 1] ELSE st, target, k)

\* The revoke function returned by the proxyObject call that made Proxy p.
revoke(st, p) ==
  IF st.err THEN st
  ELSE RevokeLoop([st EXCEPT !.h[p].revoked = TRUE], p, st.h[p].revocables)

\* for (const subrevoke of revocables) subrevoke(): each entry revokes the
\* nested Proxy and writes the raw object back to the target.
RevokeLoop(st, p, revocables) ==
  IF st.err \/ revocables = <<>> THEN st
  ELSE LET r == Head(revocables)
       IN RevokeLoop(SetP(revoke(st, r.sub), st.h[p].target, r.key, r.raw),
                     p, Tail(revocables))


\* ---- The caller's view and the plain copy

\* The references a caller holding the references S can read, through live
\* Proxies and plain objects (reads have no side effect).
RECURSIVE Readable(_, _)
Readable(h, S) ==
  LET live == {a \in S : Resolve(h, a) # 0}
      vals == {h[Resolve(h, a)].f[k] : a \in live, k \in Props}
      next == S \cup {v[2] : v \in {w \in vals : IsRef(w)}}
  IN IF next = S THEN S ELSE Readable(h, next)

\* A value as the plain copy holds it: a wrapper counts as the object it wraps.
Unwrapped(h, v) == IF IsRef(v) THEN Ref(RawOf(h, v[2])) ELSE v

\* A value as read through the Proxies: a wrapper counts as the object it
\* wraps, a revoked wrapper as a read that throws.
ReadBack(h, v) ==
  IF ~IsRef(v) THEN v
  ELSE IF Resolve(h, v[2]) = 0 THEN Thrown ELSE Ref(Resolve(h, v[2]))

\* The entry of the plain copy for the object at one address (a Proxy has
\* no entry of its own: the empty one).
ShadowOf(o) ==
  [keys |-> SeqRange(o.keys) \cap Props,
   f |-> [k \in Props |-> IF o.kind = "proxy" THEN Undef ELSE o.f[k]]]

\* The plain copy extended to the objects allocated since.
Pad(sh, h) ==
  [i \in DOMAIN h |-> IF i \in DOMAIN sh THEN sh[i] ELSE ShadowOf(h[i])]

\* ---- The initial objects and the object literals the caller writes

\* {} | {a: {}} | {a: {a: {}}}, the outermost object at address base + 1.
Literal(shape, base) ==
  CASE shape = "empty"  -> <<Obj("plain", <<>>, NoFields)>>
    [] shape = "inst"   -> <<Obj("inst", <<>>, NoFields)>>
    [] shape = "nested" ->
         <<Obj("plain", <<"a">>, [NoFields EXCEPT !["a"] = Ref(base + 2)]),
           Obj("plain", <<>>, NoFields)>>
    [] shape = "deep"   ->
         <<Obj("plain", <<"a">>, [NoFields EXCEPT !["a"] = Ref(base + 2)]),
           Obj("plain", <<"a">>, [NoFields EXCEPT !["a"] = Ref(base + 3)]),
           Obj("plain", <<>>, NoFields)>>

InitialShapes == {"empty", "nested", "deep"}
WrittenShapes == {"empty", "inst", "nested"}

\* What a write can assign: a primitive, a new object literal, or a
\* reference the caller holds.
Choices == {Prim(1)} \cup {<<"new", sh>> : sh \in WrittenShapes} \cup {Ref(a) : a \in held}

HeapWith(c) == IF c[1] = "new" THEN heap \o Literal(c[2], Len(heap)) ELSE heap
ValueOf(c) == IF c[1] = "new" THEN Ref(Len(heap) + 1) ELSE c

\* Every object that can be reached from the objects S, through Proxies
\* (revoked or not) and properties.
RECURSIVE Reach(_, _)
Reach(h, S) ==
  LET targets == {h[a].target : a \in {x \in S : h[x].kind = "proxy"}}
      vals == {h[a].f[k] : a \in S, k \in Props}
      next == S \cup targets \cup {v[2] : v \in {w \in vals : IsRef(w)}}
  IN IF next = S THEN S ELSE Reach(h, next)

\* Assigning v to a property of a keeps the data acyclic (the state is
\* JSON-like data; proxyObject does not terminate on a cyclic structure).
KeepsAcyclic(h, a, v) == ~IsRef(v) \/ RawOf(h, a) \notin Reach(h, {v[2]})

\* The record of an operation.
Did(op, a, k, v, res) ==
  [op |-> op, a |-> a, k |-> k, v |-> v,
   cur |-> IF a = 0 THEN Undef ELSE Get(heap, a, k),
   viaProxy |-> a # 0 /\ heap[a].kind = "proxy",
   live |-> a # 0 /\ Resolve(heap, a) # 0,
   again |-> proxy # 0 /\ heap[proxy].revoked,
   direct |-> last.direct \/ (op \in {"write", "delete"} /\ heap[a].kind # "proxy"),
   same |-> res.h = heap,
   dsig |-> res.sig, err |-> res.err]

\* What every operation of the caller does to the state, given the result
\* res of the call, the plain copy sh after it and the new references news.
Finish(res, sh, news, rec) ==
  /\ steps < MaxSteps
  /\ ~res.overflow
  /\ Len(res.h) <= MaxObjs
  /\ heap' = res.h
  /\ signal' = signal + res.sig
  /\ shadow' = Pad(sh, res.h)
  /\ held' = Readable(res.h, held \cup news)
  /\ last' = rec
  /\ steps' = steps + 1
  /\ UNCHANGED <<proxy, fetchVars, collVars, debounceVars, unsavedVars>>

\* useObject(initial), first render and mount.
ObjectStart ==
  \E shape \in InitialShapes :
    LET raw == Literal(shape, 0)
        s1 == proxyObject(Begin(raw), 1)
        s2 == SetP(s1, s1.ret, ValueOfKey, Fn(0))
    IN /\ heap = s2.h
       /\ signal = s2.sig
       /\ proxy = s1.ret
       /\ revokedRef = FALSE
       /\ objMounted = TRUE
       /\ held = Readable(s2.h, {1, s1.ret})
       /\ shadow = Pad([i \in DOMAIN raw |-> ShadowOf(raw[i])], s2.h)
       /\ last = [op |-> "init", a |-> 0, k |-> "a", v |-> Undef, cur |-> Undef,
                  viaProxy |-> FALSE, live |-> FALSE, again |-> FALSE, direct |-> FALSE,
                  same |-> FALSE,
                  dsig |-> s2.sig, err |-> s2.err]
       /\ steps = 0

ObjectInit == FetchIdle /\ ObjectStart /\ CollIdle /\ DebounceIdle /\ UnsavedIdle

\* handle[k] = value, through a held reference (a Proxy or a raw object).
Write(a, k, c) ==
  LET h0 == HeapWith(c)
      v == ValueOf(c)
      res == SetP(Begin(h0), a, k, v)
      r == RawOf(heap, a)
      sh0 == Pad(shadow, h0)
      sh == [sh0 EXCEPT ![r].f[k] = Unwrapped(h0, v), ![r].keys = @ \cup {k}]
  IN /\ steps < MaxSteps
     /\ KeepsAcyclic(h0, a, v)
     /\ Finish(res, sh, IF IsRef(v) THEN {v[2]} ELSE {}, Did("write", a, k, v, res))
     /\ UNCHANGED <<revokedRef, objMounted>>

\* delete handle[k], through a held reference.
Delete(a, k) ==
  LET res == DeleteP(Begin(heap), a, k)
      r == RawOf(heap, a)
      sh == [shadow EXCEPT ![r].f[k] = Undef, ![r].keys = @ \ {k}]
  IN /\ Finish(res, sh, {}, Did("delete", a, k, Undef, res))
     /\ UNCHANGED <<revokedRef, objMounted>>

\* A re-render of the component: proxy.valueOf = () => signal.
Render ==
  LET res == SetP(Begin(heap), proxy, ValueOfKey, Fn(signal))
  IN /\ objMounted
     /\ Finish(res, shadow, {}, Did("render", proxy, ValueOfKey, Fn(signal), res))
     /\ UNCHANGED <<revokedRef, objMounted>>

\* The revoke callback of useObject: _revoke(); revoked.current = true.
UseObjectRevoke ==
  LET res == revoke(Begin(heap), proxy)
  IN /\ objMounted
     /\ Finish(res, shadow, {}, Did("revoke", 0, "a", Undef, res))
     /\ revokedRef' = (revokedRef \/ ~res.err)
     /\ UNCHANGED objMounted

\* The component unmounts: the effect cleanup calls revoke().
ObjectUnmount ==
  LET res == revoke(Begin(heap), proxy)
  IN /\ objMounted
     /\ Finish(res, shadow, {}, Did("revoke", 0, "a", Undef, res))
     /\ revokedRef' = (revokedRef \/ ~res.err)
     /\ objMounted' = FALSE

ObjectNext ==
  \/ \E a \in held, k \in Props, c \in Choices : Write(a, k, c)
  \/ \E a \in held, k \in Props : Delete(a, k)
  \/ Render
  \/ UseObjectRevoke
  \/ ObjectUnmount

SpecObject == ObjectInit /\ [][ObjectNext]_vars


\* ---- Claims about the observable proxy

\* The objects of the plain copy reachable from the objects S.
RECURSIVE ShadowReach(_)
ShadowReach(S) ==
  LET next == S \cup {v[2] : v \in {w \in {shadow[r].f[k] : r \in S, k \in Props} : IsRef(w)}}
  IN IF next = S THEN S ELSE ShadowReach(next)

\* The raw (non-Proxy) objects.
RawObjects == {r \in DOMAIN heap : heap[r].kind # "proxy"}

\* Reading the properties of object r back, through the wrappers, gives
\* the plain copy's keys and values.
SameContent(r) ==
  /\ SeqRange(heap[r].keys) \cap Props = shadow[r].keys
  /\ \A k \in Props : ReadBack(heap, heap[r].f[k]) = shadow[r].f[k]

C5_SignalOncePerChange ==
  /\ (last.op = "write" /\ last.viaProxy /\ last.live) =>
       IF last.cur = last.v \/ (IsRef(last.cur) /\ Unwrapped(heap, last.cur) = last.v)
       THEN last.dsig = 0
       ELSE last.dsig = 1
  /\ (last.op = "render" /\ last.live) => last.dsig = 0

\* Every plain object at or below the value v is wrapped by a live Proxy,
\* to depth n.
RECURSIVE WrappedDeep(_, _, _)
WrappedDeep(h, v, n) ==
  IF n = 0 \/ ~IsRef(v) \/ h[RawOf(h, v[2])].kind # "plain" THEN TRUE
  ELSE /\ h[v[2]].kind = "proxy"
       /\ Resolve(h, v[2]) # 0
       /\ \A k \in Props : WrappedDeep(h, h[Resolve(h, v[2])].f[k], n - 1)

\* C6: the initial target is wrapped at every depth; a write through a live
\* wrapper (the root or a nested one) that changes the field signals, and a
\* plain object it assigns is stored wrapped at every depth; a value that is
\* not a plain object is stored as it is, and a write through a reference
\* that is not a wrapper (a class instance, a raw object) does not signal.
C6_TransitiveObservation ==
  /\ last.op = "init" => WrappedDeep(heap, Ref(proxy), MaxObjs)
  /\ (last.op = "write" /\ last.viaProxy /\ last.live /\ ~last.again) =>
       /\ ~last.err
       /\ last.cur # last.v => last.dsig >= 1
       /\ WrappedDeep(heap, Get(heap, last.a, last.k), MaxObjs)
       /\ (~IsRef(last.v) \/ heap[RawOf(heap, last.v[2])].kind # "plain")
            => Get(heap, last.a, last.k) = last.v
  /\ (last.op = "write" /\ ~last.viaProxy) => last.dsig = 0

\* C6 witness: the initial target was {}, a nested literal was assigned
\* through the proxy, and a write through the wrapper of its inner object
\* signalled.
C6_Witness ==
  /\ proxy = 2
  /\ last.op = "write" /\ last.viaProxy /\ last.dsig = 1 /\ last.a # proxy
  /\ \E x \in DOMAIN heap :
       /\ Get(heap, proxy, "a") = Ref(x)
       /\ heap[x].kind = "proxy"
       /\ Get(heap, x, "a") = Ref(last.a)

\* C7: after revoke(), a write or delete through the proxy or a nested
\* wrapper does not signal, does not fail, and acts on the unwrapped
\* target as it does on the plain copy.
C7_RevokedHandlesPassThrough ==
  (last.op \in {"write", "delete"} /\ last.viaProxy /\ last.again) =>
    /\ last.dsig = 0
    /\ ~last.err
    /\ LET r == RawOf(heap, last.a)
       IN /\ (last.k \in SeqRange(heap[r].keys)) = (last.k \in shadow[r].keys)
          /\ Unwrapped(heap, heap[r].f[last.k]) = shadow[r].f[last.k]

\* C8: after writes and deletes through the proxy followed by revoke(), the
\* target and the objects nested in it hold exactly the values last
\* written, nested wrappers replaced by their raw objects.
C8_RevokeKeepsData ==
  (last.op = "revoke" /\ ~last.again /\ ~last.direct) =>
    /\ ~last.err
    /\ \A r \in ShadowReach({1}) :
         /\ SeqRange(heap[r].keys) \cap Props = shadow[r].keys
         /\ \A k \in Props : heap[r].f[k] = shadow[r].f[k]

\* C9: a second or later call of revoke() changes nothing, neither the
\* target's contents nor the state of any wrapper.
C9_RevokeIdempotent ==
  (last.op = "revoke" /\ last.again) => (last.same /\ ~last.err)

\* The last operation went through a live proxy and replaced or removed a
\* property that held the wrapper of a nested plain object.
ReplacedWrapper ==
  /\ last.op \in {"write", "delete"}
  /\ last.viaProxy /\ last.live /\ ~last.err
  /\ IsRef(last.cur) /\ heap[last.cur[2]].kind = "proxy"
  /\ \E q \in DOMAIN heap : \E n \in DOMAIN heap[q].revocables :
       heap[q].revocables[n].sub = last.cur[2]
  /\ Get(heap, last.a, last.k) # last.cur

\* C24: when a write or a delete through a live proxy replaces or removes a
\* property that holds the wrapper of a nested plain object, that wrapper is
\* revoked by the operation and no revocables array keeps its revoke handle.
C24_ReplacedWrapperTornDown ==
  ReplacedWrapper =>
    /\ heap[last.cur[2]].revoked
    /\ \A q \in DOMAIN heap : \A n \in DOMAIN heap[q].revocables :
         heap[q].revocables[n].sub # last.cur[2]

\* C25: a delete through a live proxy signals once when the property
\* existed on the target and not at all when it did not, it does not throw,
\* and the property is absent from the target afterwards.
C25_DeleteSignalsOnce ==
  (last.op = "delete" /\ last.viaProxy /\ last.live) =>
    /\ ~last.err
    /\ last.dsig = (IF last.cur # Undef THEN 1 ELSE 0)
    /\ Has(heap, last.a, last.k) = "false"


(***************************************************************************)
(* StatefulMap / StatefulSet / StatefulArray and their hooks               *)
(*                                                                         *)
(* An instance is [items, sig, redefine]: the native contents, the _signal *)
(* field (StatefulSet has none: it stays 0) and whether _dispatchRedefine  *)
(* is set.  Every instance of one hook shares the hook's setSignal and     *)
(* setMap / setSet / setArray.                                             *)
(***************************************************************************)

\* Bounds of the model.
MaxInsts == 3
MaxCollSteps == 3
MaxLength == 3

Kinds == {"map", "set", "array"}
\* Map keys, set elements and array elements; map values.
Keys == {1, 2}
Vals == {1, 2}
\* An empty slot of an array (it reads as undefined).
Hole == 0

\* The collections the caller passes: a Map, a Set, an array.
MapValues == UNION {[D -> Vals] : D \in SUBSET Keys}
SetValues == SUBSET Keys
ArrayValues == {<<>>} \cup {<<x>> : x \in Keys} \cup {<<x, y>> : x \in Keys, y \in Keys}
Values(kind) ==
  CASE kind = "map" -> MapValues [] kind = "set" -> SetValues [] kind = "array" -> ArrayValues

\* What a method did: the instances after it, the dispatches it made in
\* order, whether it threw, the instance it returned (0 if none) and the
\* other value it returned (0 where the model does not look at it).
Out(is, events, err, ret) ==
  [insts |-> is, events |-> events, err |-> err, ret |-> ret, val |-> 0]
\* return val
Returning(out, val) == [out EXCEPT !.val = val]
\* this._dispatchSignal?.(n)
SignalEvent(n) == <<"signal", n>>
\* this._dispatchRedefine(instance)
RedefineEvent(j) == <<"redefine", j>>

\* ---- StatefulMap (src/src/index.ts)

\* new StatefulMap(initial, dispatchSignal)
StatefulMap(initial) == [items |-> initial, sig |-> 0, redefine |-> FALSE]

StatefulMap_valueOf(inst) == inst.sig

StatefulMap_forceUpdate(is, i) ==
  Out([is EXCEPT ![i].sig = @ + 1], <<SignalEvent(is[i].sig + 1)>>, FALSE, 0)

\* reset without the test for the redefinition callback.
StatefulMap_resetUnguarded(is, i, v) ==
  LET instance == [StatefulMap(v) EXCEPT !.sig = is[i].sig + 1]
  IN Out(Append(is, instance),
         <<RedefineEvent(Len(is) + 1), SignalEvent(instance.sig)>>, FALSE, Len(is) + 1)

StatefulMap_reset(is, i, v) ==
  IF ~is[i].redefine THEN Out(is, <<>>, TRUE, 0)
  ELSE LET made == [StatefulMap(v) EXCEPT !.sig = is[i].sig]
           instance == [made EXCEPT !.sig = @ + 1]
       IN Out(Append(is, instance),
              <<RedefineEvent(Len(is) + 1), SignalEvent(instance.sig)>>, FALSE, Len(is) + 1)

StatefulMap_set(is, i, k, v) ==
  LET m == is[i].items
      newKey == k \notin DOMAIN m
      after == [x \in DOMAIN m \cup {k} |-> IF x = k THEN v ELSE m[x]]
  IN IF newKey \/ m[k] # v
     THEN Out([is EXCEPT ![i].items = after, ![i].sig = @ + 1],
              <<SignalEvent(is[i].sig + 1)>>, FALSE, 0)
     ELSE Out([is EXCEPT ![i].items = after], <<>>, FALSE, 0)

\* The for loop of bulkSet: super.set(key, item) for each item in order.
RECURSIVE BulkSetLoop(_, _, _)
BulkSetLoop(m, items, keyFn) ==
  IF items = <<>> THEN m
  ELSE LET item == Head(items)
           key == keyFn[item]
       IN BulkSetLoop([x \in DOMAIN m \cup {key} |-> IF x = key THEN item ELSE m[x]],
                      Tail(items), keyFn)

\* bulkSet that goes through this.set for each item.
StatefulMap_bulkSetEach(is, i, items, keyFn) ==
  LET after == BulkSetLoop(is[i].items, items, keyFn)
      n == Len(items)
  IN Out([is EXCEPT ![i].items = after, ![i].sig = @ + n],
         [j \in 1..n |-> SignalEvent(is[i].sig + j)], FALSE, 0)

StatefulMap_bulkSet(is, i, items, keyFn) ==
  LET after == BulkSetLoop(is[i].items, items, keyFn)
  IN Out([is EXCEPT ![i].items = after, ![i].sig = @ + 1],
         <<SignalEvent(is[i].sig + 1)>>, FALSE, 0)

StatefulMap_delete(is, i, k) ==
  LET m == is[i].items
      after == [x \in DOMAIN m \ {k} |-> m[x]]
  IN IF k \in DOMAIN m
     THEN Out([is EXCEPT ![i].items = after, ![i].sig = @ + 1],
              <<SignalEvent(is[i].sig + 1)>>, FALSE, 0)
     ELSE Out(is, <<>>, FALSE, 0)

StatefulMap_clear(is, i) ==
  Out([is EXCEPT ![i].items = [x \in {} |-> 0], ![i].sig = 0], <<SignalEvent(0)>>, FALSE, 0)

\* useMap's initial signal state; initial is a Map.
useMapSignal(initial) == Cardinality(DOMAIN initial)

\* ---- StatefulSet (src/unnamed/part_003)

\* new StatefulSet(initial, dispatchSignal)
StatefulSet(initial) == [items |-> initial, sig |-> 0, redefine |-> FALSE]

StatefulSet_valueOf(inst) == Cardinality(inst.items)

StatefulSet_forceUpdate(is, i) == Out(is, <<SignalEvent(-1)>>, FALSE, 0)

StatefulSet_reset(is, i, v) ==
  IF ~is[i].redefine THEN Out(is, <<>>, TRUE, 0)
  ELSE LET instance == StatefulSet(v)
       IN Out(Append(is, instance),
              <<RedefineEvent(Len(is) + 1), SignalEvent(Cardinality(instance.items))>>,
              FALSE, Len(is) + 1)

StatefulSet_add(is, i, x) ==
  LET after == is[i].items \cup {x}
  IN Out([is EXCEPT ![i].items = after], <<SignalEvent(Cardinality(after))>>, FALSE, 0)

StatefulSet_delete(is, i, x) ==
  LET after == is[i].items \ {x}
  IN Out([is EXCEPT ![i].items = after], <<SignalEvent(Cardinality(after))>>, FALSE, 0)

StatefulSet_clear(is, i) == Out([is EXCEPT ![i].items = {}], <<SignalEvent(0)>>, FALSE, 0)

StatefulSet_toggle(is, i, x) ==
  IF x \in is[i].items
  THEN Returning(StatefulSet_delete(is, i, x), FALSE)
  ELSE Returning(StatefulSet_add(is, i, x), FALSE)

\* useSet's initial signal state; initial is a Set.
useSetSignal(initial) == Cardinality(initial)

\* ---- StatefulArray (src/unnamed/part_003)

\* super(...initial): one numeric argument is a length, not an element.
ArrayOf(initial) ==
  IF Len(initial) = 1 THEN [n \in 1..initial[1] |-> Hole] ELSE initial

\* new StatefulArray(initial, dispatchSignal)
StatefulArray(initial) == [items |-> ArrayOf(initial), sig |-> 0, redefine |-> FALSE]

StatefulArray_valueOf(inst) == inst.sig

StatefulArray_forceUpdate(is, i) ==
  Out([is EXCEPT ![i].sig = @ + 1], <<SignalEvent(is[i].sig + 1)>>, FALSE, 0)

StatefulArray_reset(is, i, v) ==
  IF ~is[i].redefine THEN Out(is, <<>>, TRUE, 0)
  ELSE LET made == StatefulArray(v)
           instance == IF is[i].sig = 0 THEN [made EXCEPT !.sig = 1] ELSE made
       IN Out(Append(is, instance),
              <<RedefineEvent(Len(is) + 1), SignalEvent(instance.sig)>>, FALSE, Len(is) + 1)

StatefulArray_push(is, i, x) ==
  Returning(Out([is EXCEPT ![i].items = Append(@, x), ![i].sig = @ + 1],
                <<SignalEvent(is[i].sig + 1)>>, FALSE, 0),
            Len(is[i].items) + 1)

StatefulArray_pop(is, i) ==
  IF Len(is[i].items) # 0
  THEN Returning(Out([is EXCEPT ![i].items = SubSeq(@, 1, Len(@) - 1), ![i].sig = @ + 1],
                     <<SignalEvent(is[i].sig + 1)>>, FALSE, 0),
                 is[i].items[Len(is[i].items)])
  ELSE Returning(Out(is, <<>>, FALSE, 0), Hole)

\* ---- The native Array.prototype methods the overrides call through super
\* (indices are JavaScript's, from 0; an optional argument is <<>> or <<x>>).

Min(x, y) == IF x < y THEN x ELSE y
Max(x, y) == IF x > y THEN x ELSE y

\* A relative index: negative counts from the end, clamped to 0..len.
RelIndex(k, len) == IF k < 0 THEN Max(len + k, 0) ELSE Min(k, len)

\* optional ?? default
OrElse(opt, default) == IF opt = <<>> THEN default ELSE opt[1]

\* array[k]: undefined outside the array.
At(a, k) == IF k >= 0 /\ k < Len(a) THEN a[k + 1] ELSE Hole

\* What a native method leaves and returns.
Native(items, val) == [items |-> items, val |-> val]

NativePop(a) ==
  IF a = <<>> THEN Native(a, Hole) ELSE Native(SubSeq(a, 1, Len(a) - 1), a[Len(a)])

NativePush(a, items) == Native(a \o items, Len(a) + Len(items))

NativeShift(a) ==
  IF a = <<>> THEN Native(a, Hole) ELSE Native(Tail(a), Head(a))

NativeUnshift(a, items) == Native(items \o a, Len(a) + Len(items))

NativeReverse(a) ==
  LET r == [n \in 1..Len(a) |-> a[Len(a) + 1 - n]] IN Native(r, r)

NativeFill(a, x, start, end) ==
  LET from == RelIndex(OrElse(start, 0), Len(a))
      final == RelIndex(OrElse(end, Len(a)), Len(a))
      r == [n \in 1..Len(a) |-> IF n - 1 >= from /\ n - 1 < final THEN x ELSE a[n]]
  IN Native(r, r)

NativeCopyWithin(a, target, start, end) ==
  LET to == RelIndex(target, Len(a))
      from == RelIndex(start, Len(a))
      final == RelIndex(OrElse(end, Len(a)), Len(a))
      count == Min(final - from, Len(a) - to)
      r == [n \in 1..Len(a) |->
              IF n - 1 >= to /\ n - 1 < to + count THEN a[n - to + from] ELSE a[n]]
  IN Native(r, r)

\* The number of elements splice removes; deleteCount <<>> is an argument
\* that was not passed at all.
ActualDeleteCount(a, start, deleteCount) ==
  LET actualStart == RelIndex(start, Len(a))
  IN IF deleteCount = <<>> THEN Len(a) - actualStart
     ELSE Min(Max(deleteCount[1], 0), Len(a) - actualStart)

NativeSplice(a, start, deleteCount, rest) ==
  LET actualStart == RelIndex(start, Len(a))
      n == ActualDeleteCount(a, start, deleteCount)
  IN Native(SubSeq(a, 1, actualStart) \o rest \o SubSeq(a, actualStart + n + 1, Len(a)),
            SubSeq(a, actualStart + 1, actualStart + n))

\* Insertion sort with the default order; every element is a number below
\* 10, on which the default (string) order and the numeric order agree, and
\* undefined sorts last.
RECURSIVE Sorted(_)
Sorted(a) ==
  IF a = <<>> THEN <<>>
  ELSE LET defined == {n \in 1..Len(a) : a[n] # Hole}
           least == IF defined = {} THEN 1
                    ELSE CHOOSE n \in defined : \A m \in defined : a[n] <= a[m]
       IN <<a[least]>> \o Sorted(SubSeq(a, 1, least - 1) \o SubSeq(a, least + 1, Len(a)))

NativeSort(a) == Native(Sorted(a), Sorted(a))

\* ---- The other overrides of StatefulArray

\* The depth at which the runtime's call stack overflows.
StackDepth == 3

\* if (cond) this._dispatchSignal?.(++this._signal); return super.method(...)
Override(is, i, cond, native) ==
  Returning(Out([is EXCEPT ![i].items = native.items,
                           ![i].sig = IF cond THEN @ + 1 ELSE @],
                IF cond THEN <<SignalEvent(is[i].sig + 1)>> ELSE <<>>, FALSE, 0),
            native.val)

StatefulArray_shift(is, i) ==
  Override(is, i, Len(is[i].items) # 0, NativeShift(is[i].items))

StatefulArray_unshift(is, i, items) ==
  Override(is, i, Len(items) # 0, NativeUnshift(is[i].items, items))

\* The palindrome loop of reverse.
Palindrome(a) ==
  \A n \in 0..((Len(a) \div 2) - 1) : At(a, n) = At(a, Len(a) - n - 1)

StatefulArray_reverse(is, i) ==
  Override(is, i, ~Palindrome(is[i].items), NativeReverse(is[i].items))

\* The loop of fill that sets different.
FillDifferent(a, x, start, end) ==
  \E n \in OrElse(start, 0)..(OrElse(end, Len(a) - 1) - 1) : At(a, n) # x

StatefulArray_fill(is, i, x, start, end) ==
  Override(is, i, FillDifferent(is[i].items, x, start, end),
           NativeFill(is[i].items, x, start, end))

\* The loop of copyWithin that sets different.
CopyDifferent(a, target, start, end) ==
  \E offset \in 0..(OrElse(end, Len(a) - 1) - 1) :
    At(a, target + offset) # At(a, start + offset)

StatefulArray_copyWithin(is, i, target, start, end) ==
  Override(is, i, CopyDifferent(is[i].items, target, start, end),
           NativeCopyWithin(is[i].items, target, start, end))

\* splice(start, deleteCount, ...rest): super.splice always receives a
\* deleteCount argument (undefined converts to 0), and it makes the array
\* it returns with new StatefulArray(count), whose constructor throws a
\* TypeError at super(...count) unless count is 0.
StatefulArray_splice(is, i, start, deleteCount, rest) ==
  LET a == is[i].items
      cond == (deleteCount # <<>> /\ deleteCount[1] # 0) \/ Len(rest) # 0
      passed == <<OrElse(deleteCount, 0)>>
      signalled == Override(is, i, cond, Native(a, 0))
  IN IF ActualDeleteCount(a, start, passed) # 0
     THEN [signalled EXCEPT !.err = TRUE]
     ELSE Override(is, i, cond, NativeSplice(a, start, passed, rest))

\* sort(compareFn): dispatches and calls this.sort(compareFn), the override
\* itself, until the call stack overflows (a RangeError).
RECURSIVE SortFrom(_, _, _)
SortFrom(is, i, depth) ==
  IF depth = StackDepth THEN Out(is, <<>>, TRUE, 0)
  ELSE LET inner == SortFrom([is EXCEPT ![i].sig = @ + 1], i, depth + 1)
       IN [inner EXCEPT !.events = <<SignalEvent(is[i].sig + 1)>> \o @]

StatefulArray_sort(is, i) == SortFrom(is, i, 0)

\* useArray's initial signal state.
useArraySignal(initial) == 0

\* ---- The three classes behind one hook

Construct(kind, initial) ==
  CASE kind = "map" -> StatefulMap(initial)
    [] kind = "set" -> StatefulSet(initial)
    [] kind = "array" -> StatefulArray(initial)

\* +instance
valueOf(inst) ==
  CASE ckind = "map" -> StatefulMap_valueOf(inst)
    [] ckind = "set" -> StatefulSet_valueOf(inst)
    [] ckind = "array" -> StatefulArray_valueOf(inst)

forceUpdate(is, i) ==
  CASE ckind = "map" -> StatefulMap_forceUpdate(is, i)
    [] ckind = "set" -> StatefulSet_forceUpdate(is, i)
    [] ckind = "array" -> StatefulArray_forceUpdate(is, i)

reset(is, i, v) ==
  CASE ckind = "map" -> StatefulMap_reset(is, i, v)
    [] ckind = "set" -> StatefulSet_reset(is, i, v)
    [] ckind = "array" -> StatefulArray_reset(is, i, v)

\* The dispatches of one kind, and the argument of the last one (cur if none).
EventsOf(events, kind) == SelectSeq(events, LAMBDA e : e[1] = kind)
LastOf(events, kind, cur) ==
  LET es == EventsOf(events, kind) IN IF es = <<>> THEN cur ELSE es[Len(es)][2]

\* ---- The hook and the caller's operations

\* useMap(initial) / useSet(initial) / useArray(initial): the first render.
CollStart ==
  \E kind \in Kinds : \E initial \in Values(kind) :
    /\ ckind = kind
    /\ insts = <<Construct(kind, initial)>>
    /\ hostInst = 1
    /\ hostSignal = CASE kind = "map" -> useMapSignal(initial)
                      [] kind = "set" -> useSetSignal(initial)
                      [] kind = "array" -> useArraySignal(initial)
    /\ attachPending = TRUE
    /\ lastc = [op |-> "init", i |-> 0, ret |-> 0, err |-> FALSE, events |-> <<>>,
                before |-> 0, after |-> 0, current |-> FALSE, hostBefore |-> 0,
                changed |-> FALSE, attached |-> FALSE, same |-> FALSE,
                hostInstBefore |-> 0, val |-> 0, arg |-> 0,
                itemsBefore |-> 0, itemsAfter |-> 0]
    /\ csteps = 0
    /\ seen = <<>>

CollInit == FetchIdle /\ ObjectIdle /\ CollStart /\ DebounceIdle /\ UnsavedIdle

\* What a method call on instance i does to the hook, given its outcome:
\* setSignal and setMap / setSet / setArray store the dispatched values, and
\* a new instance in the state makes the hook's effect run again.
Call(op, i, arg, res) ==
  /\ csteps < MaxCollSteps
  /\ Len(res.insts) <= MaxInsts
  /\ insts' = res.insts
  /\ hostSignal' = LastOf(res.events, "signal", hostSignal)
  /\ hostInst' = LastOf(res.events, "redefine", hostInst)
  /\ attachPending' = (attachPending \/ EventsOf(res.events, "redefine") # <<>>)
  /\ lastc' = [op |-> op, i |-> i, ret |-> res.ret, err |-> res.err, events |-> res.events,
               before |-> valueOf(insts[i]),
               after |-> valueOf(res.insts[IF res.ret = 0 THEN i ELSE res.ret]),
               current |-> i = hostInst, hostBefore |-> hostSignal,
               changed |-> res.insts[i].items # insts[i].items,
               attached |-> insts[i].redefine, same |-> res.insts = insts,
               hostInstBefore |-> hostInst, val |-> res.val, arg |-> arg,
               itemsBefore |-> insts[i].items, itemsAfter |-> res.insts[i].items]
  /\ csteps' = csteps + 1
  /\ UNCHANGED <<ckind, seen, fetchVars, objectVars, debounceVars, unsavedVars>>

\* useEffect(() => map._setRedefine(setMap), [map]) runs for the instance
\* the hook holds.
Attach ==
  /\ attachPending
  /\ insts' = [insts EXCEPT ![hostInst].redefine = TRUE]
  /\ attachPending' = FALSE
  /\ UNCHANGED <<ckind, hostInst, hostSignal, lastc, csteps, seen,
                 fetchVars, objectVars, debounceVars, unsavedVars>>

Reset(i, v) == Call("reset", i, v, reset(insts, i, v))

ForceUpdate(i) == Call("forceUpdate", i, 0, forceUpdate(insts, i))

MapSet(i, k, v) == ckind = "map" /\ Call("set", i, <<k, v>>, StatefulMap_set(insts, i, k, v))

\* The items and the key of each item (keyFn(item) or item[keyFn]).
BulkItems == {<<>>} \cup {<<x>> : x \in Vals} \cup {<<x, y>> : x \in Vals, y \in Vals}
KeyFns == [Vals -> Keys]

MapBulkSet(i, items, keyFn) ==
  ckind = "map" /\ Call("bulkSet", i, <<items, keyFn>>,
                        StatefulMap_bulkSet(insts, i, items, keyFn))

MapDelete(i, k) == ckind = "map" /\ Call("delete", i, k, StatefulMap_delete(insts, i, k))

MapClear(i) == ckind = "map" /\ Call("clear", i, 0, StatefulMap_clear(insts, i))

SetAdd(i, x) == ckind = "set" /\ Call("add", i, x, StatefulSet_add(insts, i, x))

SetDelete(i, x) == ckind = "set" /\ Call("delete", i, x, StatefulSet_delete(insts, i, x))

SetToggle(i, x) == ckind = "set" /\ Call("toggle", i, x, StatefulSet_toggle(insts, i, x))

SetClear(i) == ckind = "set" /\ Call("clear", i, 0, StatefulSet_clear(insts, i))

ArrayPush(i, x) ==
  /\ ckind = "array"
  /\ Len(insts[i].items) < MaxLength
  /\ Call("push", i, <<x>>, StatefulArray_push(insts, i, x))

ArrayPop(i) == ckind = "array" /\ Call("pop", i, 0, StatefulArray_pop(insts, i))

CollNext ==
  \/ Attach
  \/ \E i \in DOMAIN insts, v \in Values(ckind) : Reset(i, v)
  \/ \E i \in DOMAIN insts : ForceUpdate(i)
  \/ \E i \in DOMAIN insts, k \in Keys, v \in Vals : MapSet(i, k, v)
  \/ \E i \in DOMAIN insts, items \in BulkItems, keyFn \in KeyFns : MapBulkSet(i, items, keyFn)
  \/ \E i \in DOMAIN insts, k \in Keys : MapDelete(i, k)
  \/ \E i \in DOMAIN insts : MapClear(i)
  \/ \E i \in DOMAIN insts, x \in Keys : SetAdd(i, x)
  \/ \E i \in DOMAIN insts, x \in Keys : SetDelete(i, x)
  \/ \E i \in DOMAIN insts, x \in Keys : SetToggle(i, x)
  \/ \E i \in DOMAIN insts : SetClear(i)
  \/ \E i \in DOMAIN insts, x \in Keys : ArrayPush(i, x)
  \/ \E i \in DOMAIN insts : ArrayPop(i)

SpecColl == CollInit /\ [][CollNext]_vars


\* ---- StatefulArray alone: one instance in any state, every override

MaxArraySteps == 2

\* The index arguments and the optional arguments the caller passes.
Index == {-1, 0, 1, 2}
Optional(S) == {<<>>} \cup {<<x>> : x \in S}
Rest == {<<>>} \cup {<<x>> : x \in Keys}

\* The arrays an instance can hold.
ArrayStates == UNION {[1..n -> Keys \cup {Hole}] : n \in 0..MaxLength}

\* A mounted useArray whose instance went through earlier operations.
ArrayStart ==
  \E a \in ArrayStates, n \in 0..1 :
    /\ ckind = "array"
    /\ insts = <<[items |-> a, sig |-> n, redefine |-> TRUE]>>
    /\ hostInst = 1
    /\ hostSignal = n
    /\ attachPending = FALSE
    /\ lastc = [op |-> "init", i |-> 0, ret |-> 0, err |-> FALSE, events |-> <<>>,
                before |-> 0, after |-> 0, current |-> FALSE, hostBefore |-> 0,
                changed |-> FALSE, attached |-> FALSE, same |-> FALSE,
                hostInstBefore |-> 0, val |-> 0, arg |-> 0,
                itemsBefore |-> 0, itemsAfter |-> 0]
    /\ csteps = 0
    /\ seen = <<>>

ArrayInit == FetchIdle /\ ObjectIdle /\ ArrayStart /\ DebounceIdle /\ UnsavedIdle

\* A method call on the instance, within the bounds of this specification.
ArrayCall(op, arg, res) ==
  /\ csteps < MaxArraySteps
  /\ Len(res.insts[1].items) <= MaxLength
  /\ Call(op, 1, arg, res)

ArrayShift == ArrayCall("shift", <<>>, StatefulArray_shift(insts, 1))

ArrayUnshift(items) == ArrayCall("unshift", <<items>>, StatefulArray_unshift(insts, 1, items))

ArrayReverse == ArrayCall("reverse", <<>>, StatefulArray_reverse(insts, 1))

ArrayFill(x, start, end) ==
  ArrayCall("fill", <<x, start, end>>, StatefulArray_fill(insts, 1, x, start, end))

ArrayCopyWithin(target, start, end) ==
  ArrayCall("copyWithin", <<target, start, end>>,
            StatefulArray_copyWithin(insts, 1, target, start, end))

ArraySplice(start, deleteCount, rest) ==
  ArrayCall("splice", <<start, deleteCount, rest>>,
            StatefulArray_splice(insts, 1, start, deleteCount, rest))

ArraySort == ArrayCall("sort", <<>>, StatefulArray_sort(insts, 1))

ArrayNext ==
  \/ \E x \in Keys : csteps < MaxArraySteps /\ ArrayPush(1, x)
  \/ csteps < MaxArraySteps /\ ArrayPop(1)
  \/ ArrayShift
  \/ \E items \in Rest : ArrayUnshift(items)
  \/ ArrayReverse
  \/ \E x \in Keys, start \in Optional(Index), end \in Optional(Index) : ArrayFill(x, start, end)
  \/ \E target \in Index, start \in Index, end \in Optional(Index) :
       ArrayCopyWithin(target, start, end)
  \/ \E start \in Index, deleteCount \in Optional(0..2), rest \in Rest :
       ArraySplice(start, deleteCount, rest)
  \/ ArraySort

SpecArray == ArrayInit /\ [][ArrayNext]_vars


\* ---- Claims about the stateful collections

\* C10: reset(newValue) on the attached instance the hook holds first hands
\* the new instance to the redefinition callback and then dispatches a
\* signal, and the new instance's signal value (+instance) differs from
\* the replaced instance's, whatever the new contents are.
C10_ResetSignalsChange ==
  (lastc.op = "reset" /\ lastc.current /\ ~lastc.err) =>
    /\ Len(lastc.events) = 2
    /\ lastc.events[1] = RedefineEvent(lastc.ret)
    /\ lastc.events[2] = SignalEvent(lastc.after)
    /\ lastc.after # lastc.before

\* C11: reset on an instance whose redefinition callback is not registered
\* (the effect has not run for it yet) throws, dispatches nothing, creates
\* and installs no instance, and leaves contents and signal as they were.
C11_ResetUnattachedFails ==
  (lastc.op = "reset" /\ ~lastc.attached) =>
    /\ lastc.err
    /\ lastc.events = <<>>
    /\ lastc.same
    /\ lastc.ret = 0
    /\ hostInst = lastc.hostInstBefore
    /\ hostSignal = lastc.hostBefore
    /\ lastc.after = lastc.before

\* C11 witness: reset was called on the instance an earlier reset returned,
\* before the effect registered the callback on it, and it threw.
C11_Witness ==
  /\ lastc.op = "reset" /\ ~lastc.attached /\ lastc.err
  /\ lastc.i > 1 /\ lastc.i = hostInst /\ attachPending
  /\ Len(insts) = lastc.i

\* The signal values an operation dispatched that differ from the
\* instance's signal value before it.
FreshSignals(rec) ==
  {n \in 1..Len(rec.events) :
     rec.events[n][1] = "signal" /\ rec.events[n][2] # rec.before}

\* C12: set, delete and clear of a StatefulMap dispatch a signal value
\* different from the instance's previous one exactly when the entries
\* changed, and leave valueOf() as it was when they did not.
C12_MapSignalsIffChanged ==
  (ckind = "map" /\ lastc.op \in {"set", "delete", "clear"}) =>
    /\ (FreshSignals(lastc) # {}) <=> lastc.changed
    /\ ~lastc.changed => lastc.after = lastc.before

ArrayMutators ==
  {"push", "pop", "shift", "unshift", "splice", "fill", "copyWithin", "reverse", "sort"}

\* The operation dispatched the instance's signal incremented by one.
Incremented(rec) == SignalEvent(rec.before + 1) \in SeqRange(rec.events)

\* C13: a mutating operation of a StatefulArray that changes an element or
\* the length dispatches the incremented signal (fill and copyWithin for a
\* change anywhere in the range, the last element included), and sort
\* dispatches always.
C13_ArrayChangeSignals ==
  (ckind = "array" /\ lastc.op \in ArrayMutators) =>
    /\ lastc.changed => Incremented(lastc)
    /\ lastc.op = "sort" => Incremented(lastc)

\* The same operation with the same arguments on a plain array holding the
\* elements the instance held (splice(start) alone passes no delete count).
PlainArray(rec) ==
  LET a == rec.itemsBefore
      arg == rec.arg
  IN CASE rec.op = "push" -> NativePush(a, arg)
       [] rec.op = "pop" -> NativePop(a)
       [] rec.op = "shift" -> NativeShift(a)
       [] rec.op = "unshift" -> NativeUnshift(a, arg[1])
       [] rec.op = "reverse" -> NativeReverse(a)
       [] rec.op = "fill" -> NativeFill(a, arg[1], arg[2], arg[3])
       [] rec.op = "copyWithin" -> NativeCopyWithin(a, arg[1], arg[2], arg[3])
       [] rec.op = "splice" ->
            NativeSplice(a, arg[1],
                         IF arg[2] = <<>> /\ arg[3] # <<>> THEN <<0>> ELSE arg[2], arg[3])
       [] rec.op = "sort" -> NativeSort(a)

\* C14: every overridden mutating operation of a StatefulArray returns
\* (it does not throw or recurse without end) and leaves the contents and
\* returns the value that the same operation on a plain array does.
C14_ArrayNativeSemantics ==
  (ckind = "array" /\ lastc.op \in ArrayMutators) =>
    /\ ~lastc.err
    /\ lastc.itemsAfter = PlainArray(lastc).items
    /\ lastc.val = PlainArray(lastc).val

\* The positions of the items whose key is k.
ItemsAt(items, keyFn, k) == {n \in 1..Len(items) : keyFn[items[n]] = k}

\* C15: bulkSet leaves under every key the last item with that key, keeps
\* the entries of the other keys, and dispatches exactly one signal, for
\* two, one or no items.
C15_BulkSetSignalsOnce ==
  (ckind = "map" /\ lastc.op = "bulkSet") =>
    LET items == lastc.arg[1]
        keyFn == lastc.arg[2]
        before == lastc.itemsBefore
        after == lastc.itemsAfter
    IN /\ ~lastc.err
       /\ Len(lastc.events) = 1
       /\ lastc.events[1][1] = "signal"
       /\ \A k \in Keys :
            LET at == ItemsAt(items, keyFn, k)
            IN IF at = {}
               THEN /\ (k \in DOMAIN after) = (k \in DOMAIN before)
                    /\ k \in DOMAIN after => after[k] = before[k]
               ELSE /\ k \in DOMAIN after
                    /\ after[k] = items[CHOOSE n \in at : \A m \in at : m <= n]

\* C15 witness: two different items with the same key were inserted, the
\* later one stayed, and one signal was dispatched.
C15_Witness ==
  /\ ckind = "map" /\ lastc.op = "bulkSet"
  /\ Len(lastc.arg[1]) = 2
  /\ lastc.arg[1][1] # lastc.arg[1][2]
  /\ lastc.arg[2][lastc.arg[1][1]] = lastc.arg[2][lastc.arg[1][2]]
  /\ lastc.itemsAfter[lastc.arg[2][lastc.arg[1][2]]] = lastc.arg[1][2]
  /\ Len(lastc.events) = 1

\* C16: forceUpdate() dispatches a signal in every case, and the value it
\* dispatches differs from the value the host held before the call, also
\* when the call before it was a forceUpdate().
C16_ForceUpdateRefreshes ==
  lastc.op = "forceUpdate" =>
    /\ ~lastc.err
    /\ Len(lastc.events) = 1
    /\ lastc.events[1][1] = "signal"
    /\ hostSignal # lastc.hostBefore

\* C17: toggle(value) inserts an absent value and returns true, removes a
\* present value and returns false: the returned value is has(value) after
\* the call.
C17_ToggleReturnsMembership ==
  (ckind = "set" /\ lastc.op = "toggle") =>
    /\ (lastc.arg \in lastc.itemsAfter) = (lastc.arg \notin lastc.itemsBefore)
    /\ lastc.val = (lastc.arg \in lastc.itemsAfter)


\* ---- A dependent of a set or a map: a memo or effect with the signal in
\* ---- its dependency list, reading it at some renders

\* What a dependent reads at a render: +instance and the host's signal
\* state, with the contents of that moment.
Snapshot ==
  [items |-> insts[hostInst].items, sig |-> valueOf(insts[hostInst]), host |-> hostSignal]

\* useSet(initial) / useMap(initial): the first render, read by the dependent.
SignalStart ==
  \E kind \in {"map", "set"} : \E initial \in Values(kind) :
    /\ ckind = kind
    /\ insts = <<Construct(kind, initial)>>
    /\ hostInst = 1
    /\ hostSignal = (IF kind = "map" THEN useMapSignal(initial) ELSE useSetSignal(initial))
    /\ attachPending = TRUE
    /\ lastc = [op |-> "init", i |-> 0, ret |-> 0, err |-> FALSE, events |-> <<>>,
                before |-> 0, after |-> 0, current |-> FALSE, hostBefore |-> 0,
                changed |-> FALSE, attached |-> FALSE, same |-> FALSE,
                hostInstBefore |-> 0, val |-> 0, arg |-> 0,
                itemsBefore |-> 0, itemsAfter |-> 0]
    /\ csteps = 0
    /\ seen = [items |-> initial, sig |-> valueOf(Construct(kind, initial)),
               host |-> hostSignal]

SignalInit == FetchIdle /\ ObjectIdle /\ SignalStart /\ DebounceIdle /\ UnsavedIdle

\* The dependent reads the signal again at a later render.
ReadSignal ==
  /\ seen # Snapshot
  /\ seen' = Snapshot
  /\ UNCHANGED <<ckind, insts, hostInst, hostSignal, attachPending, lastc, csteps>>
  /\ UNCHANGED <<fetchVars, objectVars, debounceVars, unsavedVars>>

SignalNext ==
  \/ Attach
  \/ ReadSignal
  \/ \E k \in Keys, v \in Vals : MapSet(hostInst, k, v)
  \/ \E items \in BulkItems, keyFn \in KeyFns : MapBulkSet(hostInst, items, keyFn)
  \/ \E k \in Keys : MapDelete(hostInst, k)
  \/ MapClear(hostInst)
  \/ \E x \in Keys : SetAdd(hostInst, x)
  \/ \E x \in Keys : SetDelete(hostInst, x)
  \/ \E x \in Keys : SetToggle(hostInst, x)
  \/ SetClear(hostInst)

SpecSignal == SignalInit /\ [][SignalNext]_vars

\* C26: when the contents of the set or map differ from the contents at the
\* dependent's last read, +instance differs from the value read then and so
\* does the value last dispatched to the host.
C26_ContentChangeChangesSignal ==
  (seen # <<>> /\ insts[hostInst].items # seen.items) =>
    /\ valueOf(insts[hostInst]) # seen.sig
    /\ hostSignal # seen.host

(***************************************************************************)
(* useDebouncedState                                                       *)
(***************************************************************************)

\* Bounds of the model.  The clock counts units of 10 ms.
MaxTime == 20
MaxUpdates == 3

\* The values given to setReal (the initial argument is 0) and the delays
\* given as timeoutMs.
DebounceValues == 0..1
Delays == {4, 10}

\* clearTimeout(id): the timer with that id is no longer outstanding.
clearTimeout(ts, id) == {t \in ts : t.id # id}

\* setTimeout(() => { setDebounced(real) }, timeoutMs) at the time at.
setTimeout(ts, id, val, delay, at) ==
  ts \cup {[id |-> id, due |-> at + delay, val |-> val, delay |-> delay]}

\* The effect with the dependencies [real, timeoutMs]: the cleanup of the
\* previous run clears its timer, then the body arms a new one.
DebounceEffectArmOnly(ts, prior, id, val, delay, at) ==
  setTimeout(ts, id, val, delay, at)

DebounceEffect(ts, prior, id, val, delay, at) ==
  setTimeout(clearTimeout(ts, prior), id, val, delay, at)

DebounceRecord(op, at, changed, t) ==
  [op |-> op, at |-> at, changed |-> changed, timer |-> t,
   updatedAt |-> IF updates = <<>> THEN 0 ELSE updates[Len(updates)].at,
   real |-> real, pending |-> debouncePending, cleared |-> {}]

\* useDebouncedState(0, delay) was rendered for the first time; its effect
\* has not run yet.
DebounceStart ==
  /\ debounced = 0
  /\ real = 0
  /\ timeoutMs \in Delays
  /\ timers = {}
  /\ timeout = 0
  /\ timerSeq = 0
  /\ now = 0
  /\ debouncePending = TRUE
  /\ debounceMounted = TRUE
  /\ updates = <<>>
  /\ settles = <<>>
  /\ lastd = <<>>

DebounceInit == FetchIdle /\ ObjectIdle /\ CollIdle /\ DebounceStart /\ UnsavedIdle

\* setReal(v) with a value that differs from the real state: a render is
\* committed.  React flushes the passive effects of the previous render
\* first; a setReal with the same value renders nothing.
SetReal(v) ==
  /\ debounceMounted
  /\ ~debouncePending
  /\ Len(updates) < MaxUpdates
  /\ v # real
  /\ real' = v
  /\ debouncePending' = TRUE
  /\ updates' = Append(updates, [op |-> "setReal", at |-> now, val |-> v])
  /\ lastd' = DebounceRecord("setReal", now, FALSE, <<>>)
  /\ UNCHANGED <<debounced, timeoutMs, timers, timeout, timerSeq, now,
                 debounceMounted, settles>>
  /\ UNCHANGED <<fetchVars, objectVars, collVars, unsavedVars>>

\* The component is rendered with another timeoutMs argument.
SetTimeoutMs(d) ==
  /\ debounceMounted
  /\ ~debouncePending
  /\ Len(updates) < MaxUpdates
  /\ d # timeoutMs
  /\ timeoutMs' = d
  /\ debouncePending' = TRUE
  /\ updates' = Append(updates, [op |-> "timeoutMs", at |-> now, val |-> d])
  /\ lastd' = DebounceRecord("timeoutMs", now, FALSE, <<>>)
  /\ UNCHANGED <<debounced, real, timers, timeout, timerSeq, now,
                 debounceMounted, settles>>
  /\ UNCHANGED <<fetchVars, objectVars, collVars, unsavedVars>>

\* The passive effects of the committed render are flushed.
RunDebounceEffect ==
  /\ debounceMounted
  /\ debouncePending
  /\ debouncePending' = FALSE
  /\ timers' = DebounceEffect(timers, timeout, timerSeq + 1, real, timeoutMs, now)
  /\ timeout' = timerSeq + 1
  /\ timerSeq' = timerSeq + 1
  /\ lastd' = [DebounceRecord("effect", now, FALSE, <<>>) EXCEPT
                 !.cleared = {t \in timers : t.id = timeout}]
  /\ UNCHANGED <<debounced, real, timeoutMs, now, debounceMounted, updates, settles>>
  /\ UNCHANGED <<fetchVars, objectVars, collVars, unsavedVars>>

\* A timer that is due fires: its callback runs setDebounced(real) with the
\* real state of the render that armed it.
Fire(t) ==
  /\ t \in timers
  /\ t.due <= now
  /\ timers' = timers \ {t}
  /\ debounced' = t.val
  /\ settles' = IF t.val # debounced
                THEN Append(settles, [at |-> now, val |-> t.val])
                ELSE settles
  /\ lastd' = DebounceRecord("fire", now, t.val # debounced, t)
  /\ UNCHANGED <<real, timeoutMs, timeout, timerSeq, now, debouncePending,
                 debounceMounted, updates>>
  /\ UNCHANGED <<fetchVars, objectVars, collVars, unsavedVars>>

\* The clock advances.  The host runs the timers that are due and React
\* flushes the pending effects before the clock moves on.  Nothing of the
\* hook depends on the clock after the unmount.
Tick ==
  /\ debounceMounted
  /\ now < MaxTime
  /\ ~debouncePending
  /\ \A t \in timers : t.due > now
  /\ now' = now + 1
  /\ UNCHANGED <<debounced, real, timeoutMs, timers, timeout, timerSeq,
                 debouncePending, debounceMounted, updates, settles, lastd>>
  /\ UNCHANGED <<fetchVars, objectVars, collVars, unsavedVars>>

\* The component unmounts: the effect's cleanup runs.
DebounceUnmount ==
  /\ debounceMounted
  /\ ~debouncePending
  /\ debounceMounted' = FALSE
  /\ timers' = clearTimeout(timers, timeout)
  /\ timeout' = 0
  /\ lastd' = [DebounceRecord("unmount", now, FALSE, <<>>) EXCEPT
                 !.cleared = {t \in timers : t.id = timeout}]
  /\ UNCHANGED <<debounced, real, timeoutMs, timerSeq, now, debouncePending,
                 updates, settles>>
  /\ UNCHANGED <<fetchVars, objectVars, collVars, unsavedVars>>

DebounceNext ==
  \/ \E v \in DebounceValues : SetReal(v)
  \/ \E d \in Delays : SetTimeoutMs(d)
  \/ RunDebounceEffect
  \/ \E t \in timers : Fire(t)
  \/ Tick
  \/ DebounceUnmount

SpecDebounce == DebounceInit /\ [][DebounceNext]_vars

\* C18: a timer callback changes the debounced state only when the full
\* delay has elapsed since the most recent update of the real state, and it
\* sets it to the real state of that moment.
C18_SettlesAfterFullDelay ==
  (lastd # <<>> /\ lastd.op = "fire" /\ lastd.changed) =>
    /\ lastd.at >= lastd.updatedAt + lastd.timer.delay
    /\ debounced = lastd.real

\* The updates at t = 0, 50 and 80 ms with a delay of 100 ms (5 and 8 units
\* after the first one, with a delay of 10 units).
Scenario ==
  /\ timeoutMs = 10
  /\ Len(updates) = 3
  /\ \A k \in 1..3 : updates[k].op = "setReal"
  /\ updates[2].at = updates[1].at + 5
  /\ updates[3].at = updates[1].at + 8

\* In the scenario the debounced state changes once, 100 ms after the last
\* update and to its value, when no update falls on the instant a timer is due.
ScenarioSettlesOnce ==
  Scenario =>
    /\ \A k \in DOMAIN settles :
         settles[k].at < updates[1].at \/ settles[k].at = updates[3].at + 10
    /\ \A k \in DOMAIN settles :
         settles[k].at >= updates[1].at => settles[k].val = updates[3].val
    /\ now >= updates[3].at + 10 /\ timers = {} /\ debounceMounted
         => debounced = updates[3].val

\* C19: at most one timer is outstanding at any time, it is the one the
\* effect's cleanup holds, and none is outstanding after the unmount.
C19_OneTimerOutstanding ==
  /\ Cardinality(timers) <= 1
  /\ \A t \in timers : t.id = timeout
  /\ ~debounceMounted => timers = {}

\* C19 witness: an effect run cleared a timer that was still outstanding
\* and armed the next one after a change of the delay.
C19_Witness ==
  /\ lastd # <<>> /\ lastd.op = "effect"
  /\ lastd.cleared # {}
  /\ updates # <<>> /\ updates[Len(updates)].op = "timeoutMs"
  /\ Cardinality(timers) = 1

\* C19 witness of the teardown: the unmount cleared an outstanding timer.
C19_UnmountCleared ==
  /\ lastd # <<>> /\ lastd.op = "unmount"
  /\ lastd.cleared # {}
  /\ timers = {}

(***************************************************************************)
(* useUnsaved                                                              *)
(***************************************************************************)

\* Bounds of the model.
MaxNavSteps == 3

\* A string is the sequence of its characters.  The pages of the
\* application (the values router.pathname takes): "/", "/a", "/p",
\* "/p/[i]" and "/p/[i]/e".
Routes ==
  { <<"/">>,
    <<"/", "a">>,
    <<"/", "p">>,
    <<"/", "p", "/", "[", "i", "]">>,
    <<"/", "p", "/", "[", "i", "]", "/", "e">> }

\* The URLs a navigation is started with: "/", "/a", "/a?q", "/p", "/p/1",
\* "/p/2", "/p/1?q" and "/p/1/e".
Urls ==
  { <<"/">>,
    <<"/", "a">>,
    <<"/", "a", "?", "q">>,
    <<"/", "p">>,
    <<"/", "p", "/", "1">>,
    <<"/", "p", "/", "2">>,
    <<"/", "p", "/", "1", "?", "q">>,
    <<"/", "p", "/", "1", "/", "e">> }

\* String.prototype.split(sep) for a separator of one character.
RECURSIVE SplitAcc(_, _, _, _)
SplitAcc(s, sep, cur, acc) ==
  IF s = <<>> THEN Append(acc, cur)
  ELSE IF Head(s) = sep
       THEN SplitAcc(Tail(s), sep, <<>>, Append(acc, cur))
       ELSE SplitAcc(Tail(s), sep, Append(cur, Head(s)), acc)

Split(s, sep) == SplitAcc(s, sep, <<>>, <<>>)

\* String.prototype.startsWith / endsWith with one character.
startsWith(s, c) == s # <<>> /\ s[1] = c
endsWith(s, c) == s # <<>> /\ s[Len(s)] = c

\* subroute is a bracket segment or equals urlSplit[i]; urlSplit[i] is
\* undefined beyond the end of urlSplit.
SubrouteAccepts(subroute, i, urlSplit) ==
  \/ startsWith(subroute, "[") /\ endsWith(subroute, "]")
  \/ i \in DOMAIN urlSplit /\ subroute = urlSplit[i]

\* preventUnsavedNav(url) with router.pathname = path; confirms is the
\* answer confirm() would give.  every() calls its callback with (element,
\* index) for the elements of the receiver only.
preventUnsavedNav(path, url, confirms) ==
  LET urlSplit == Split(Split(url, "?")[1], "/")
      subroutes == Split(path, "/")
  IN IF \A i \in DOMAIN subroutes : SubrouteAccepts(subroutes[i], i, urlSplit)
     THEN [prompted |-> FALSE, thrown |-> FALSE]
     ELSE [prompted |-> TRUE, thrown |-> ~confirms]

\* The router's own matching of a page against a path: the same number of
\* segments, each a bracket segment of the page or equal.
RouteMatches(route, path) ==
  LET r == Split(route, "/")
      u == Split(path, "/")
  IN /\ Len(r) = Len(u)
     /\ \A i \in DOMAIN r :
          \/ startsWith(r[i], "[") /\ endsWith(r[i], "]")
          \/ r[i] = u[i]

\* The page the router shows for a URL (a page without bracket segments
\* comes first).
PageOf(url) ==
  LET path == Split(url, "?")[1]
  IN IF path \in Routes THEN path
     ELSE CHOOSE r \in Routes : RouteMatches(r, path)

UnsavedRecord(op) ==
  [op |-> op, url |-> <<>>, from |-> pathname, listening |-> routerListeners # {},
   prompted |-> FALSE, thrown |-> FALSE, confirms |-> FALSE,
   prevented |-> FALSE, unsaved |-> unsaved]

\* useUnsaved(unsaved, router) was rendered for the first time; its effect
\* has not run yet.
UnsavedStart ==
  /\ unsaved \in BOOLEAN
  /\ router \in BOOLEAN
  /\ pathname \in (IF router THEN Routes ELSE {<<>>})
  /\ routerListeners = {}
  /\ windowListeners = {}
  /\ registered = 0
  /\ effectRuns = 0
  /\ unsavedPending = TRUE
  /\ unsavedMounted = TRUE
  /\ lastn = <<>>
  /\ nsteps = 0

UnsavedInit == FetchIdle /\ ObjectIdle /\ CollIdle /\ DebounceIdle /\ UnsavedStart

\* The component is rendered with another unsaved argument.
SetUnsaved(b) ==
  /\ unsavedMounted
  /\ ~unsavedPending
  /\ nsteps < MaxNavSteps
  /\ b # unsaved
  /\ unsaved' = b
  /\ unsavedPending' = TRUE
  /\ nsteps' = nsteps + 1
  /\ lastn' = UnsavedRecord("unsaved")
  /\ UNCHANGED <<router, pathname, routerListeners, windowListeners, registered,
                 effectRuns, unsavedMounted>>
  /\ UNCHANGED <<fetchVars, objectVars, collVars, debounceVars>>

\* The cleanup the effect returned: both handlers are removed.
UnsavedCleanupKeeps(listeners, id) == listeners

UnsavedCleanup(listeners, id) == listeners \ {id}

\* The passive effects of the committed render are flushed: the previous
\* cleanup runs, and the body registers new handlers when unsaved is set.
RunUnsavedEffect ==
  /\ unsavedMounted
  /\ unsavedPending
  /\ unsavedPending' = FALSE
  /\ effectRuns' = effectRuns + 1
  /\ IF unsaved
     THEN /\ routerListeners' = IF router
                                THEN UnsavedCleanup(routerListeners, registered)
                                       \cup {effectRuns + 1}
                                ELSE routerListeners
          /\ windowListeners' = UnsavedCleanup(windowListeners, registered)
                                  \cup {effectRuns + 1}
          /\ registered' = effectRuns + 1
     ELSE /\ routerListeners' = UnsavedCleanup(routerListeners, registered)
          /\ windowListeners' = UnsavedCleanup(windowListeners, registered)
          /\ registered' = 0
  /\ lastn' = UnsavedRecord("effect")
  /\ UNCHANGED <<unsaved, router, pathname, unsavedMounted, nsteps>>
  /\ UNCHANGED <<fetchVars, objectVars, collVars, debounceVars>>

\* The router starts a navigation to url and emits routeChangeStart: the
\* registered handler runs; when it throws the navigation is aborted,
\* otherwise the router shows the page of url.
Navigate(url, confirms) ==
  /\ router
  /\ nsteps < MaxNavSteps
  /\ LET out == IF routerListeners = {}
                THEN [prompted |-> FALSE, thrown |-> FALSE]
                ELSE preventUnsavedNav(pathname, url, confirms)
     IN /\ pathname' = IF out.thrown THEN pathname ELSE PageOf(url)
        /\ lastn' = [UnsavedRecord("navigate") EXCEPT
                       !.url = url, !.confirms = confirms,
                       !.prompted = out.prompted, !.thrown = out.thrown]
  /\ nsteps' = nsteps + 1
  /\ UNCHANGED <<unsaved, router, routerListeners, windowListeners, registered,
                 effectRuns, unsavedPending, unsavedMounted>>
  /\ UNCHANGED <<fetchVars, objectVars, collVars, debounceVars>>

\* The window dispatches beforeunload: a registered handler calls
\* e.preventDefault().
BeforeUnload ==
  /\ nsteps < MaxNavSteps
  /\ nsteps' = nsteps + 1
  /\ lastn' = [UnsavedRecord("beforeunload") EXCEPT !.prevented = windowListeners # {}]
  /\ UNCHANGED <<unsaved, router, pathname, routerListeners, windowListeners,
                 registered, effectRuns, unsavedPending, unsavedMounted>>
  /\ UNCHANGED <<fetchVars, objectVars, collVars, debounceVars>>

\* The component unmounts: the effect's cleanup runs.
UnsavedUnmount ==
  /\ unsavedMounted
  /\ ~unsavedPending
  /\ unsavedMounted' = FALSE
  /\ routerListeners' = UnsavedCleanup(routerListeners, registered)
  /\ windowListeners' = UnsavedCleanup(windowListeners, registered)
  /\ registered' = 0
  /\ lastn' = UnsavedRecord("unmount")
  /\ UNCHANGED <<unsaved, router, pathname, effectRuns, unsavedPending, nsteps>>
  /\ UNCHANGED <<fetchVars, objectVars, collVars, debounceVars>>

UnsavedNext ==
  \/ \E b \in BOOLEAN : SetUnsaved(b)
  \/ RunUnsavedEffect
  \/ \E url \in Urls, confirms \in BOOLEAN : Navigate(url, confirms)
  \/ BeforeUnload
  \/ UnsavedUnmount

SpecUnsaved == UnsavedInit /\ [][UnsavedNext]_vars

\* C20: while the navigation handler is registered, a navigation goes ahead
\* without a prompt only when the path of the URL has the same segments as
\* the current page (a bracket segment of the page stands for any segment);
\* for every other URL the user is prompted, and the navigation is aborted
\* exactly when the user does not confirm.
C20_PromptUnlessSameRoute ==
  (lastn # <<>> /\ lastn.op = "navigate" /\ lastn.listening) =>
    /\ ~lastn.prompted => RouteMatches(lastn.from, Split(lastn.url, "?")[1])
    /\ lastn.thrown = (lastn.prompted /\ ~lastn.confirms)

\* C21: once the effects of the last render are flushed, the beforeunload
\* handler (and the routeChangeStart handler, when a router was given) is
\* registered exactly when the component is mounted and unsaved is set; in
\* every state at most one handler of each kind is registered, it is the one
\* the cleanup holds, and none is registered after the unmount.
C21_RegisteredIffUnsaved ==
  /\ ~unsavedPending =>
       /\ (windowListeners # {}) = (unsavedMounted /\ unsaved)
       /\ (routerListeners # {}) = (unsavedMounted /\ unsaved /\ router)
  /\ Cardinality(windowListeners) <= 1
  /\ Cardinality(routerListeners) <= 1
  /\ (windowListeners \cup routerListeners) \subseteq {registered}
  /\ ~unsavedMounted => windowListeners = {} /\ routerListeners = {}

\* C21 witness: unsaved was set, cleared and set again; the effect of the
\* last render replaced nothing and registered both handlers once more.
C21_Witness ==
  /\ lastn # <<>> /\ lastn.op = "effect"
  /\ unsaved /\ router /\ unsavedMounted
  /\ effectRuns >= 3
  /\ routerListeners = {effectRuns}
  /\ windowListeners = {effectRuns}

\* C21 witness of the teardown: the unmount removed both handlers.
C21_UnmountDeregistered ==
  /\ lastn # <<>> /\ lastn.op = "unmount"
  /\ lastn.listening
  /\ routerListeners = {} /\ windowListeners = {}

====
